---- MODULE Spec2Model ----
(***************************************************************************)
(* Model of thirdparty/build_definitions/gperftools.py: the descriptor     *)
(* GPerfToolsDependency with its two operations build and should_build,    *)
(* driven by a single-threaded orchestrator.  build is followed line by    *)
(* line (39..44); every log_output call is split into the start of the     *)
(* subprocess and its exit, so that the states in which a step is running  *)
(* are visible.                                                            *)
(***************************************************************************)
EXTENDS Integers, Sequences, FiniteSets, TLC

VARIABLES
    self,            \* the descriptor object (fields set by __init__)
    environ,         \* os.environ: a partial map from names to strings
    environ_before,  \* os.environ at the moment build was called (history)
    builder,         \* the builder argument of the current build call
    pc,              \* position of the orchestrator / of build
    running,         \* TRUE while the subprocess of the current line runs
    log_prefix,      \* the local variable log_prefix of build
    lp_calls,        \* builder.log_prefix calls made by the current build
    calls,           \* log_output calls made by the current build, in order
    exits,           \* exit codes of the subprocesses that have returned
    builds,          \* number of build calls so far
    last_sb,         \* arguments and result of the last should_build call
    sb_calls         \* number of should_build calls so far

vars == <<self, environ, environ_before, builder, pc, running, log_prefix,
          lp_calls, calls, exits, builds, last_sb, sb_calls>>

----------------------------------------------------------------------------
\* Bounds of the exploration

MaxBuilds == 2
MaxShouldBuilds == 2

\* Inputs
Prefixes == {"/opt/x", "/usr/local"}
BuildTypes == {"uninstrumented", "asan"}
Builders == [prefix : Prefixes, build_type : BuildTypes]
ExitCodes == {0, 1, 2}
RemoteBuildValues == {"0", "1"}
PathValues == {"/usr/bin"}

None == "None"

----------------------------------------------------------------------------
\* The descriptor

BUILD_GROUP_INSTRUMENTED == "BUILD_GROUP_INSTRUMENTED"

Dependency_init(name, version, url_pattern, build_group) ==
    [name |-> name, version |-> version, url_pattern |-> url_pattern,
     build_group |-> build_group]

Extend(rec, more) ==
    [k \in DOMAIN rec \cup DOMAIN more |->
        IF k \in DOMAIN more THEN more[k] ELSE rec[k]]

GPerfToolsDependency_init ==
    Extend(
        Dependency_init(
            "gperftools", "2.2.1",
            "https://github.com/gperftools/gperftools/releases/download/gperftools-{0}/"
                \o "gperftools-{0}.tar.gz",
            BUILD_GROUP_INSTRUMENTED),
        [copy_sources |-> TRUE,
         patch_version |-> 4,
         patch_strip |-> 1,
         patches |-> <<"gperftools-Change-default-TCMALLOC_TRANSFER_NUM_OBJ-to-40.patch",
                       "gperftools-hook-mi_force_unlock-on-OSX-instead-of-pthread_atfork.patch",
                       "gperftools-Fix-finding-default-zone-on-Mac-Sierra.patch",
                       "gperftools-fix-sanitized-debugallocation.patch">>,
         post_patch |-> <<"autoreconf", "-fvi">>])

----------------------------------------------------------------------------
\* os.environ

EnvNames == {"YB_REMOTE_BUILD", "PATH"}

EnvValues(n) == IF n = "YB_REMOTE_BUILD" THEN RemoteBuildValues ELSE PathValues

Environs ==
    UNION {{e \in [S -> RemoteBuildValues \cup PathValues] :
               \A n \in S : e[n] \in EnvValues(n)} : S \in SUBSET EnvNames}

\* os.environ[name] = value
environ_setitem(e, name, value) ==
    [n \in DOMAIN e \cup {name} |-> IF n = name THEN value ELSE e[n]]

RemoteBuildIsZero(e) ==
    "YB_REMOTE_BUILD" \in DOMAIN e /\ e["YB_REMOTE_BUILD"] = "0"

----------------------------------------------------------------------------
\* The collaborators of build

\* builder.log_prefix(dep): the logging tag of a dependency
builder_log_prefix(b, dep) == dep.name \o " (" \o b.build_type \o ")"

\* log_output(prefix, args) runs args as a subprocess and fails on a
\* non-zero exit code; otherwise it returns normally.
log_output(exit_code) == IF exit_code # 0 THEN "raise" ELSE "return"

----------------------------------------------------------------------------
\* build, lines 38-44

\* the argument list passed to log_output at each line
configure_args(b) ==
    <<"./configure", "--prefix=" \o b.prefix,
      "--enable-frame-pointers", "--enable-heap-checker", "--with-pic">>
clean_args == <<"make", "clean">>
install_args == <<"make", "install", "-j", "1">>

build_args(line, b) ==
    CASE line = "l41" -> configure_args(b)
      [] line = "l43" -> clean_args
      [] line = "l44" -> install_args

LogOutputLines == {"l41", "l43", "l44"}

\* faulty variant: an exception of the clean step is caught and ignored
build_next_swallow_clean(line, outcome) ==
    IF outcome = "raise" /\ line # "l43" THEN "failed"
    ELSE CASE line = "l41" -> "l43"
           [] line = "l43" -> "l44"
           [] line = "l44" -> "done"

\* faulty variant: a failed step is run again
build_next_retry(line, outcome) ==
    IF outcome = "raise" THEN line
    ELSE CASE line = "l41" -> "l43"
           [] line = "l43" -> "l44"
           [] line = "l44" -> "done"

\* faulty variant: install and clean are swapped
build_next_install_first(line, outcome) ==
    IF outcome = "raise" THEN "failed"
    ELSE CASE line = "l41" -> "l44"
           [] line = "l44" -> "l43"
           [] line = "l43" -> "done"

\* control flow of build after the log_output call at `line` ended with
\* `outcome`: the statements follow each other, nothing catches an exception
build_next(line, outcome) ==
    IF outcome = "raise" THEN "failed"
    ELSE CASE line = "l41" -> "l43"
           [] line = "l43" -> "l44"
           [] line = "l44" -> "done"

\* faulty variant: the instrumented argument is ignored
should_build_ignores_instrumented(skip_build, instrumented) == ~skip_build

\* should_build, lines 46-47
should_build(skip_build, instrumented) == ~skip_build /\ ~instrumented

----------------------------------------------------------------------------
Quiescent == {"idle", "done", "failed"}

Init ==
    /\ self = GPerfToolsDependency_init
    /\ environ \in Environs
    /\ environ_before = environ
    /\ builder = None
    /\ pc = "idle"
    /\ running = FALSE
    /\ log_prefix = None
    /\ lp_calls = 0
    /\ calls = <<>>
    /\ exits = <<>>
    /\ builds = 0
    /\ last_sb = None
    /\ sb_calls = 0

\* the orchestrator calls build(builder)
Build(b) ==
    /\ pc \in Quiescent
    /\ builds < MaxBuilds
    /\ builder' = b
    /\ pc' = "l39"
    /\ environ_before' = environ
    /\ log_prefix' = None
    /\ lp_calls' = 0
    /\ calls' = <<>>
    /\ exits' = <<>>
    /\ builds' = builds + 1
    /\ UNCHANGED <<self, environ, running, last_sb, sb_calls>>

\* line 39: log_prefix = builder.log_prefix(self)
L39 ==
    /\ pc = "l39"
    /\ log_prefix' = builder_log_prefix(builder, self)
    /\ lp_calls' = lp_calls + 1
    /\ pc' = "l40"
    /\ UNCHANGED <<self, environ, environ_before, builder, running, calls,
                   exits, builds, last_sb, sb_calls>>

\* faulty variant: the environment is not written
L40_no_write ==
    /\ pc = "l40"
    /\ pc' = "l41"
    /\ UNCHANGED <<self, environ, environ_before, builder, running,
                   log_prefix, lp_calls, calls, exits, builds, last_sb,
                   sb_calls>>

\* faulty variant: the build also writes a field of the descriptor
L40_bumps_patch_version ==
    /\ pc = "l40"
    /\ environ' = environ_setitem(environ, "YB_REMOTE_BUILD", "0")
    /\ self' = [self EXCEPT !.patch_version = self.patch_version + 1]
    /\ pc' = "l41"
    /\ UNCHANGED <<environ_before, builder, running, log_prefix,
                   lp_calls, calls, exits, builds, last_sb, sb_calls>>

\* line 40: os.environ["YB_REMOTE_BUILD"] = "0"
L40 ==
    /\ pc = "l40"
    /\ environ' = environ_setitem(environ, "YB_REMOTE_BUILD", "0")
    /\ pc' = "l41"
    /\ UNCHANGED <<self, environ_before, builder, running, log_prefix,
                   lp_calls, calls, exits, builds, last_sb, sb_calls>>

\* faulty variant: the install step is tagged with another prefix
LogOutputStart_fresh_prefix ==
    /\ pc \in LogOutputLines
    /\ ~running
    /\ calls' = Append(calls,
                       [prefix |-> IF pc = "l44" THEN self.name ELSE log_prefix,
                        args |-> build_args(pc, builder)])
    /\ running' = TRUE
    /\ UNCHANGED <<self, environ, environ_before, builder, pc, log_prefix,
                   lp_calls, exits, builds, last_sb, sb_calls>>

\* lines 41, 43, 44: log_output(log_prefix, args) starts the subprocess
LogOutputStart ==
    /\ pc \in LogOutputLines
    /\ ~running
    /\ calls' = Append(calls, [prefix |-> log_prefix,
                               args |-> build_args(pc, builder)])
    /\ running' = TRUE
    /\ UNCHANGED <<self, environ, environ_before, builder, pc, log_prefix,
                   lp_calls, exits, builds, last_sb, sb_calls>>

\* faulty variant: the environment is restored when build ends
LogOutputExit_restores_environ(exit_code) ==
    /\ pc \in LogOutputLines
    /\ running
    /\ exits' = Append(exits, exit_code)
    /\ running' = FALSE
    /\ pc' = build_next(pc, log_output(exit_code))
    /\ environ' = IF pc' \in {"done", "failed"} THEN environ_before ELSE environ
    /\ UNCHANGED <<self, environ_before, builder, log_prefix,
                   lp_calls, calls, builds, last_sb, sb_calls>>

\* the subprocess exits with exit_code and log_output returns or raises;
\* build goes on with the next line, returns, or is left by the exception
LogOutputExit(exit_code) ==
    /\ pc \in LogOutputLines
    /\ running
    /\ exits' = Append(exits, exit_code)
    /\ running' = FALSE
    /\ pc' = build_next(pc, log_output(exit_code))
    /\ UNCHANGED <<self, environ, environ_before, builder, log_prefix,
                   lp_calls, calls, builds, last_sb, sb_calls>>

\* faulty variant: should_build writes the environment
ShouldBuild_writes_environ(skip_build, instrumented) ==
    /\ pc \in Quiescent
    /\ sb_calls < MaxShouldBuilds
    /\ last_sb' = [skip_build |-> skip_build, instrumented |-> instrumented,
                   ret |-> should_build(skip_build, instrumented)]
    /\ sb_calls' = sb_calls + 1
    /\ environ' = environ_setitem(environ, "YB_REMOTE_BUILD", "0")
    /\ UNCHANGED <<self, environ_before, builder, pc, running,
                   log_prefix, lp_calls, calls, exits, builds>>

\* the orchestrator calls should_build(skip_build, instrumented)
ShouldBuild(skip_build, instrumented) ==
    /\ pc \in Quiescent
    /\ sb_calls < MaxShouldBuilds
    /\ last_sb' = [skip_build |-> skip_build, instrumented |-> instrumented,
                   ret |-> should_build(skip_build, instrumented)]
    /\ sb_calls' = sb_calls + 1
    /\ UNCHANGED <<self, environ, environ_before, builder, pc, running,
                   log_prefix, lp_calls, calls, exits, builds>>

Next ==
    \/ \E b \in Builders : Build(b)
    \/ L39
    \/ L40
    \/ LogOutputStart
    \/ \E exit_code \in ExitCodes : LogOutputExit(exit_code)
    \/ \E skip_build \in BOOLEAN, instrumented \in BOOLEAN :
          ShouldBuild(skip_build, instrumented)

Spec == Init /\ [][Next]_vars

----------------------------------------------------------------------------
\* Properties

\* C1: should_build(skip_build, instrumented) is true if and only if both
\* skip_build and instrumented are false; with instrumented = true it is
\* false whatever skip_build is.
C1_ShouldBuildIff ==
    sb_calls > 0 =>
        /\ (last_sb.ret = TRUE) <=>
               (last_sb.skip_build = FALSE /\ last_sb.instrumented = FALSE)
        /\ last_sb.instrumented = TRUE => last_sb.ret = FALSE

C1_Witness ==
    /\ sb_calls > 0
    /\ last_sb.instrumented = TRUE
    /\ last_sb.skip_build = FALSE
    /\ last_sb.ret = FALSE

\* C2: the steps of a build are invoked in the order configure, clean,
\* install, each one only after the previous one has returned; configure
\* carries --prefix=<builder.prefix>, install carries the job count 1, and a
\* build that ends without a failure has invoked exactly these three.
C2_StepsInOrder ==
    builds > 0 =>
        LET expected ==
                <<(<<"./configure", "--prefix=" \o builder.prefix,
                     "--enable-frame-pointers", "--enable-heap-checker",
                     "--with-pic">>),
                  (<<"make", "clean">>),
                  (<<"make", "install", "-j", "1">>)>>
        IN  /\ Len(calls) <= 3
            /\ \A i \in DOMAIN calls : calls[i].args = expected[i]
            /\ Len(exits) = Len(calls) - (IF running THEN 1 ELSE 0)
            /\ pc = "done" =>
                   /\ Len(calls) = 3
                   /\ \A i \in DOMAIN exits : exits[i] = 0

C2_Witness ==
    /\ pc = "done"
    /\ builder.prefix = "/opt/x"
    /\ calls[1].args[2] = "--prefix=/opt/x"
    /\ calls[3].args = <<"make", "install", "-j", "1">>

\* C3: YB_REMOTE_BUILD is "0" before configure is invoked and in every state
\* in which configure, clean or install is running.
C3_RemoteBuildOffWhileStepsRun ==
    pc \in {"l41", "l43", "l44"} => RemoteBuildIsZero(environ)

C3_Witness ==
    /\ pc = "l41"
    /\ running
    /\ "YB_REMOTE_BUILD" \in DOMAIN environ_before
    /\ environ_before["YB_REMOTE_BUILD"] = "1"
    /\ RemoteBuildIsZero(environ)

\* C4: a step that exits non-zero is the last step of its build: nothing is
\* invoked after it, and the build ends as failed; a build that ended as
\* failed has a non-zero exit as its last step.
C4_FailureAborts ==
    /\ \A i \in DOMAIN exits :
           exits[i] # 0 => i = Len(calls) /\ ~running /\ pc = "failed"
    /\ pc = "failed" => exits # <<>> /\ exits[Len(exits)] # 0

C4_Witness ==
    /\ pc = "failed"
    /\ Len(calls) = 1
    /\ exits = <<1>>

\* C5 as claimed: a non-zero exit of the clean step does not fail the build.
C5_CleanFailureNonFatal ==
    (Len(exits) >= 2 /\ exits[2] # 0) => pc # "failed"

\* C5 as amended: a non-zero exit of the clean step fails the build, and the
\* install step is not invoked.
C5_CleanFailureFatal ==
    (Len(exits) >= 2 /\ exits[2] # 0) =>
        /\ pc = "failed"
        /\ Len(calls) = 2
        /\ ~running

C5_Witness ==
    /\ Len(exits) = 2
    /\ exits[1] = 0
    /\ exits[2] # 0
    /\ calls[2].args = <<"make", "clean">>

\* C6: within one build each of configure, clean and install is invoked at
\* most once: at most three invocations, no two with the same arguments.
C6_OneShot ==
    /\ Len(calls) <= 3
    /\ \A i, j \in DOMAIN calls : i # j => calls[i].args # calls[j].args

C6_Witness ==
    /\ pc = "failed"
    /\ Len(calls) = 3
    /\ exits[3] # 0

\* C7: every step of a build is tagged with builder.log_prefix(descriptor),
\* which the build has obtained exactly once, before its first step.
C7_SameLogPrefix ==
    /\ lp_calls <= 1
    /\ calls # <<>> =>
           /\ lp_calls = 1
           /\ \A i \in DOMAIN calls :
                  calls[i].prefix = builder_log_prefix(builder, self)

C7_Witness ==
    /\ Len(calls) = 3
    /\ builds = 2
    /\ calls[3].prefix = "gperftools (asan)"

\* C8: a call of should_build changes neither the environment nor the
\* descriptor, invokes no subprocess step, and returns a boolean.
C8_ShouldBuildPure ==
    [][sb_calls' # sb_calls =>
          /\ environ' = environ
          /\ self' = self
          /\ calls' = calls
          /\ exits' = exits
          /\ running' = running
          /\ pc' = pc
          /\ last_sb'.ret \in BOOLEAN]_vars

C8_Witness ==
    /\ sb_calls > 0
    /\ builds = 0
    /\ "YB_REMOTE_BUILD" \in DOMAIN environ
    /\ environ["YB_REMOTE_BUILD"] = "1"

\* C9: the descriptor always holds the values its constructor set.
C9_DescriptorImmutable ==
    /\ DOMAIN self = {"name", "version", "url_pattern", "build_group",
                      "copy_sources", "patch_version", "patch_strip",
                      "patches", "post_patch"}
    /\ self.name = "gperftools"
    /\ self.version = "2.2.1"
    /\ self.url_pattern =
           "https://github.com/gperftools/gperftools/releases/download/gperftools-{0}/gperftools-{0}.tar.gz"
    /\ self.build_group = BUILD_GROUP_INSTRUMENTED
    /\ self.copy_sources = TRUE
    /\ self.patch_version = 4
    /\ self.patch_strip = 1
    /\ Len(self.patches) = 4
    /\ self.patches[1] = "gperftools-Change-default-TCMALLOC_TRANSFER_NUM_OBJ-to-40.patch"
    /\ self.patches[2] = "gperftools-hook-mi_force_unlock-on-OSX-instead-of-pthread_atfork.patch"
    /\ self.patches[3] = "gperftools-Fix-finding-default-zone-on-Mac-Sierra.patch"
    /\ self.patches[4] = "gperftools-fix-sanitized-debugallocation.patch"
    /\ self.post_patch = <<"autoreconf", "-fvi">>

C9_Witness ==
    /\ builds = 2
    /\ pc = "failed"
    /\ sb_calls > 0

\* C10: once build has written YB_REMOTE_BUILD the variable is "0" and stays
\* "0", also after the build has completed or aborted; the rest of the
\* environment is as it was when build was called.
C10_RestOfEnvironUntouched ==
    \A n \in (DOMAIN environ \cup DOMAIN environ_before) \ {"YB_REMOTE_BUILD"} :
        /\ n \in DOMAIN environ
        /\ n \in DOMAIN environ_before
        /\ environ[n] = environ_before[n]

C10_NeverRestored ==
    /\ [](pc \in {"l41", "l43", "l44", "done", "failed"} =>
              RemoteBuildIsZero(environ) /\ C10_RestOfEnvironUntouched)
    /\ [][RemoteBuildIsZero(environ) => RemoteBuildIsZero(environ')]_vars

C10_Witness ==
    /\ pc = "failed"
    /\ "YB_REMOTE_BUILD" \in DOMAIN environ_before
    /\ environ_before["YB_REMOTE_BUILD"] = "1"
    /\ "PATH" \in DOMAIN environ
    /\ RemoteBuildIsZero(environ)

====
